---- MODULE Spec2Model ----
(***************************************************************************)
(* Upload lifecycle of the file-management dashboard: the useFileUpload    *)
(* hook, the process-wide cancel registry, the FileUpload component that   *)
(* drives the hook, and the Dashboard's logout flow.                       *)
(*                                                                         *)
(* JavaScript is single-threaded: every action below is one event handler  *)
(* or one promise continuation, run to completion.  Continuations of a     *)
(* settled promise are microtasks: they run before any other event, which  *)
(* the guards express with  microtasks = <<>>.                             *)
(*                                                                         *)
(* A nullable value is a sequence of length at most one: Null or Some(v).  *)
(* An upload id "upload-N" is the number N; 0 stands for a null ref.  An   *)
(* XMLHttpRequest is identified with the upload id of the call that made   *)
(* it.                                                                     *)
(***************************************************************************)
EXTENDS Integers, Sequences, FiniteSets, TLC

\* ------------------------------------------------------------------ bounds
MaxUploads == 2
MaxSelections == 2

\* ------------------------------------------------------- program constants
MAX_FILE_SIZE == 52428800
MAX_FILENAME_LENGTH == 255

\* ---------------------------------------------------------------- helpers
Null == <<>>
Some(v) == <<v>>

Max(a, b) == IF a >= b THEN a ELSE b

\* Number.prototype.toFixed(0) / Math.round of the non-negative ratio a / b.
RoundDiv(a, b) == (2 * a + b) \div (2 * b)

Digits == <<"0", "1", "2", "3", "4", "5", "6", "7", "8", "9">>

RECURSIVE NatToString(_)
NatToString(n) ==
  IF n < 10 THEN Digits[n + 1]
  ELSE NatToString(n \div 10) \o Digits[(n % 10) + 1]

\* The subsequence of s without the elements equal to x.
RECURSIVE Without(_, _)
Without(s, x) ==
  IF s = <<>> THEN <<>>
  ELSE IF Head(s) = x THEN Without(Tail(s), x)
  ELSE <<Head(s)>> \o Without(Tail(s), x)

Contains(s, x) == \E i \in 1..Len(s) : s[i] = x

\* ------------------------------------------------------------- validators
\* A filename is a sequence of characters, each a one-character string;
\* a character that is awkward to write is named: "DQUOTE", "SQUOTE", "BACKTICK", "BACKSLASH",
\* "LF", "CR", "TAB", "FF", "VT" (U+000B), "NUL" (U+0000), "NBSP" (U+00A0).
Letters ==
  {"a", "b", "c", "d", "e", "f", "g", "h", "i", "j", "k", "l", "m",
   "n", "o", "p", "q", "r", "s", "t", "u", "v", "w", "x", "y", "z",
   "A", "B", "C", "D", "E", "F", "G", "H", "I", "J", "K", "L", "M",
   "N", "O", "P", "Q", "R", "S", "T", "U", "V", "W", "X", "Y", "Z"}

DigitChars == {"0", "1", "2", "3", "4", "5", "6", "7", "8", "9"}

\* What the class s of a regular expression matches and what
\* String.prototype.trim() removes.
WhiteSpace == {" ", "TAB", "LF", "CR", "FF", "VT", "NBSP"}

\* The character class of invalidChars: < > double quote, single quote,
\* backtick, newline, carriage return, tab, NUL, slash, backslash.
InvalidChars ==
  {"<", ">", "DQUOTE", "SQUOTE", "BACKTICK", "LF", "CR", "TAB", "NUL", "/", "BACKSLASH"}

\* One or more of: letter, digit, dot, underscore, hyphen, whitespace,
\* parenthesis; anchored at both ends.
ALLOWED_FILENAME_PATTERN(filename) ==
  /\ Len(filename) >= 1
  /\ \A i \in 1..Len(filename) :
       filename[i] \in Letters \cup DigitChars \cup {".", "_", "-", "(", ")"}
                       \cup WhiteSpace

Valid == [valid |-> TRUE, error |-> ""]
Invalid(msg) == [valid |-> FALSE, error |-> msg]

\* A validateFileSize that rejects the limit itself.
validateFileSizeInclusive(file) ==
  IF file.size = 0 THEN Invalid("Cannot upload empty file")
  ELSE IF file.size >= MAX_FILE_SIZE
    THEN Invalid("File size exceeds "
                 \o NatToString(RoundDiv(MAX_FILE_SIZE, 1024 * 1024))
                 \o "MB limit")
  ELSE Valid

validateFileSize(file) ==
  IF file.size = 0 THEN Invalid("Cannot upload empty file")
  ELSE IF file.size > MAX_FILE_SIZE
    THEN Invalid("File size exceeds "
                 \o NatToString(RoundDiv(MAX_FILE_SIZE, 1024 * 1024))
                 \o "MB limit")
  ELSE Valid

\* A validateFilename that tests the character class before the traversal
\* sequence.
validateFilenameCharsFirst(filename) ==
  IF filename = <<>> \/ \A i \in 1..Len(filename) : filename[i] \in WhiteSpace
    THEN Invalid("Filename cannot be empty")
  ELSE IF Len(filename) > MAX_FILENAME_LENGTH
    THEN Invalid("Filename exceeds maximum length of "
                 \o NatToString(MAX_FILENAME_LENGTH) \o " characters")
  ELSE IF \E i \in 1..Len(filename) : filename[i] \in InvalidChars
    THEN Invalid("Filename contains invalid characters (<, >, \", ', BACKTICK, /, \\, newline, tab, null)")
  ELSE IF \E i \in 1..(Len(filename) - 1) :
            filename[i] = "." /\ filename[i + 1] = "."
    THEN Invalid("Filename cannot contain path traversal sequences (..)")
  ELSE IF ~ALLOWED_FILENAME_PATTERN(filename)
    THEN Invalid("Filename can only contain letters, numbers, dots, underscores, hyphens, spaces, and parentheses")
  ELSE Valid

validateFilename(filename) ==
  IF filename = <<>> \/ \A i \in 1..Len(filename) : filename[i] \in WhiteSpace
    THEN Invalid("Filename cannot be empty")
  ELSE IF Len(filename) > MAX_FILENAME_LENGTH
    THEN Invalid("Filename exceeds maximum length of "
                 \o NatToString(MAX_FILENAME_LENGTH) \o " characters")
  ELSE IF \E i \in 1..(Len(filename) - 1) :
            filename[i] = "." /\ filename[i + 1] = "."
    THEN Invalid("Filename cannot contain path traversal sequences (..)")
  ELSE IF \E i \in 1..Len(filename) : filename[i] \in InvalidChars
    \* the word BACKTICK stands for that character in the message
    THEN Invalid("Filename contains invalid characters (<, >, \", ', BACKTICK, /, \\, newline, tab, null)")
  ELSE IF ~ALLOWED_FILENAME_PATTERN(filename)
    THEN Invalid("Filename can only contain letters, numbers, dots, underscores, hyphens, spaces, and parentheses")
  ELSE Valid

\* A validateFile that validates the name before the size.
validateFileNameFirst(file) ==
  LET filenameValidation == validateFilename(file.name) IN
  IF ~filenameValidation.valid THEN filenameValidation
  ELSE LET sizeValidation == validateFileSize(file) IN
       IF ~sizeValidation.valid THEN sizeValidation
       ELSE Valid

validateFile(file) ==
  LET sizeValidation == validateFileSize(file) IN
  IF ~sizeValidation.valid THEN sizeValidation
  ELSE LET filenameValidation == validateFilename(file.name) IN
       IF ~filenameValidation.valid THEN filenameValidation
       ELSE Valid

\* validation.error || "File validation failed"
ErrorOr(validation) ==
  IF validation.error = "" THEN "File validation failed" ELSE validation.error

\* ------------------------------------------------------------------ inputs
\* The files the user can pick.
Files ==
  { [name |-> <<"a">>, size |-> 1],
    [name |-> <<"a">>, size |-> 0] }


\* The bodies a response can carry: the JSON of a FileUploadResponse (which
\* has no detail), a JSON error whose detail is a string, and text that is
\* not JSON.
Bodies == {"file_json", "detail_string", "not_json"}

Statuses == {200, 413}

\* JSON.parse(xhr.responseText) throws exactly on text that is not JSON.
JsonParses(body) == body # "not_json"

\* errorResponse.detail?.message || errorResponse.detail || errorMsg
ErrorMessageOf(status, body) ==
  IF body = "detail_string" THEN "too large"
  ELSE "Upload failed with status " \o NatToString(status)

\* The request body is multipart form data: the file's bytes and the framing.
MultipartOverhead == 1
RequestBodySize(file) == file.size + MultipartOverhead

\* --------------------------------------------------------------- state
VARIABLES
  \* useFileUpload (one instance, rendered by FileUpload)
  progress, uploading, error, xhrRef, uploadIdRef,
  \* module scope of useFileUpload.ts
  activeUploadCancelFunctions, uploadIdCounter,
  \* one record per call of upload(), indexed by upload id: its closure
  \* (file, uploadId), its XMLHttpRequest, its promise, and what became of it
  tasks,
  \* continuations of settled upload() promises, not yet run
  microtasks,
  \* FileUpload
  selectedFile, showDuplicateDialog, duplicateFile, validationError,
  \* one record per call of handleFileSelect; dialogSession is the call that
  \* raised the duplicate dialog last
  sessions, dialogSession,
  \* Dashboard and useAuth
  activeUploads, showLogoutConfirm, isLoggingOut,
  \* the registry as the last cancelAllActiveUploads() found it
  tornDown,
  \* useAuth: the downloads counted active
  activeDownloads,
  \* the registry as the last logout() call found it
  registryAtLogout,
  \* usePagination (one instance, rendered by FileList)
  page, totalItems

vars ==
  <<progress, uploading, error, xhrRef, uploadIdRef,
    activeUploadCancelFunctions, uploadIdCounter, tasks, microtasks,
    selectedFile, showDuplicateDialog, duplicateFile, validationError,
    sessions, dialogSession,
    activeUploads, showLogoutConfirm, isLoggingOut, tornDown,
    activeDownloads, registryAtLogout, page, totalItems>>

\* The program state as one value, which the handlers below transform.
World ==
  [progress |-> progress, uploading |-> uploading, error |-> error,
   xhrRef |-> xhrRef, uploadIdRef |-> uploadIdRef,
   activeUploadCancelFunctions |-> activeUploadCancelFunctions,
   uploadIdCounter |-> uploadIdCounter, tasks |-> tasks,
   microtasks |-> microtasks,
   selectedFile |-> selectedFile, showDuplicateDialog |-> showDuplicateDialog,
   duplicateFile |-> duplicateFile, validationError |-> validationError,
   sessions |-> sessions, dialogSession |-> dialogSession,
   activeUploads |-> activeUploads, showLogoutConfirm |-> showLogoutConfirm,
   isLoggingOut |-> isLoggingOut, tornDown |-> tornDown,
   activeDownloads |-> activeDownloads, registryAtLogout |-> registryAtLogout,
   page |-> page, totalItems |-> totalItems]

Commit(w) ==
  /\ progress' = w.progress
  /\ uploading' = w.uploading
  /\ error' = w.error
  /\ xhrRef' = w.xhrRef
  /\ uploadIdRef' = w.uploadIdRef
  /\ activeUploadCancelFunctions' = w.activeUploadCancelFunctions
  /\ uploadIdCounter' = w.uploadIdCounter
  /\ tasks' = w.tasks
  /\ microtasks' = w.microtasks
  /\ selectedFile' = w.selectedFile
  /\ showDuplicateDialog' = w.showDuplicateDialog
  /\ duplicateFile' = w.duplicateFile
  /\ validationError' = w.validationError
  /\ sessions' = w.sessions
  /\ dialogSession' = w.dialogSession
  /\ activeUploads' = w.activeUploads
  /\ showLogoutConfirm' = w.showLogoutConfirm
  /\ isLoggingOut' = w.isLoggingOut
  /\ tornDown' = w.tornDown
  /\ activeDownloads' = w.activeDownloads
  /\ registryAtLogout' = w.registryAtLogout
  /\ page' = w.page
  /\ totalItems' = w.totalItems

Init ==
  /\ progress = Null
  /\ uploading = FALSE
  /\ error = Null
  /\ xhrRef = 0
  /\ uploadIdRef = 0
  /\ activeUploadCancelFunctions = <<>>
  /\ uploadIdCounter = 0
  /\ tasks = <<>>
  /\ microtasks = <<>>
  /\ selectedFile = Null
  /\ showDuplicateDialog = FALSE
  /\ duplicateFile = Null
  /\ validationError = Null
  /\ sessions = <<>>
  /\ dialogSession = 0
  /\ activeUploads = 0
  /\ showLogoutConfirm = FALSE
  /\ isLoggingOut = FALSE
  /\ tornDown = Null
  /\ activeDownloads = 0
  /\ registryAtLogout = Null
  /\ page = 1
  /\ totalItems = 0

\* ------------------------------------------------- Dashboard's callbacks
handleUploadStart(w) == [w EXCEPT !.activeUploads = @ + 1]

\* setFileListKey only remounts the listing and is left out.
handleUploadSuccess(w) == [w EXCEPT !.activeUploads = Max(0, @ - 1)]

handleUploadError(w) == [w EXCEPT !.activeUploads = Max(0, @ - 1)]

\* ------------------------------------- the options FileUpload gives the hook
onSuccess(w, id) ==
  handleUploadSuccess(
    [w EXCEPT !.tasks[id].nSuccess = @ + 1,
              !.tasks[id].registeredAtCallback =
                 @ \/ Contains(w.activeUploadCancelFunctions, id),
              !.selectedFile = Null,
              !.validationError = Null])

onError(w, id) ==
  handleUploadError(
    [w EXCEPT !.tasks[id].nError = @ + 1,
              !.tasks[id].registeredAtCallback =
                 @ \/ Contains(w.activeUploadCancelFunctions, id)])

\* ------------------------------------------------ the promise of upload()
\* Settling a promise queues the continuation of whoever awaits it; a promise
\* settles once.
resolve(w, id) ==
  IF w.tasks[id].settled # "pending" THEN w
  ELSE [w EXCEPT !.tasks[id].settled = "resolved",
                 !.microtasks = Append(@, [task |-> id, ok |-> TRUE])]

reject(w, id) ==
  IF w.tasks[id].settled # "pending" THEN w
  ELSE [w EXCEPT !.tasks[id].settled = "rejected",
                 !.microtasks = Append(@, [task |-> id, ok |-> FALSE])]

\* ------------------------------------------------------- useFileUpload
ProgressOf(file, loaded, total, percentage, status, errorMsg) ==
  [filename |-> file.name, loaded |-> loaded, total |-> total,
   percentage |-> percentage, status |-> status, error |-> errorMsg]

\* A task's status records what the hook has published for it: queued until
\* its request is sent, uploading from then on, completed or failed once a
\* listener or cancel() has said so.  registeredAtCallback records whether
\* the registry held the task's id at a moment one of the caller's callbacks
\* was invoked for it.  authorization is the Authorization header of the
\* task's request while the request is in flight.
NewTask(file, session, ctx) ==
  [file |-> file, session |-> session, ctx |-> ctx,
   xhr |-> "none", tokenPending |-> FALSE, loaded |-> 0,
   settled |-> "pending", status |-> "queued",
   nSuccess |-> 0, nError |-> 0, nInvalidate |-> 0, nSend |-> 0,
   registeredAtCallback |-> FALSE, authorization |-> Null]

\* activeUploadCancelFunctions.delete(id)
RegistryDelete(w, id) ==
  [w EXCEPT !.activeUploadCancelFunctions = Without(@, id)]

\* activeUploadCancelFunctions.set(id, cancel): a new key goes last, a key
\* already present keeps its place.
RegistrySet(w, id) ==
  IF Contains(w.activeUploadCancelFunctions, id) THEN w
  ELSE [w EXCEPT !.activeUploadCancelFunctions = Append(@, id)]

\* A progress listener that takes the file's size for the total instead of
\* the event's.
onXhrProgressOfFileSize(w, id, lengthComputable, loaded, total) ==
  LET file == w.tasks[id].file
  IN IF lengthComputable
       THEN [w EXCEPT !.progress =
               Some(ProgressOf(file, loaded, file.size,
                               RoundDiv(loaded * 100, file.size), "uploading", "")),
                      !.tasks[id].loaded = loaded]
       ELSE w

\* The listener of the upload's "progress" event.
onXhrProgress(w, id, lengthComputable, loaded, total) ==
  LET file == w.tasks[id].file
  IN IF lengthComputable
       THEN [w EXCEPT !.progress =
               Some(ProgressOf(file, loaded, total,
                               RoundDiv(loaded * 100, total), "uploading", "")),
                      !.tasks[id].loaded = loaded]
       ELSE w

\* A load listener that invalidates the listing before it parses the body,
\* so also when the parse fails.
onXhrLoadInvalidatesFirst(w, id, status, body) ==
  LET file == w.tasks[id].file IN
  IF status >= 200 /\ status < 300 THEN
    LET w0 == [w EXCEPT !.tasks[id].nInvalidate = @ + 1] IN
    IF JsonParses(body) THEN
      LET w1 == [w0 EXCEPT
                   !.progress = Some(ProgressOf(file, file.size, file.size,
                                                100, "completed", "")),
                   !.uploading = FALSE,
                   !.uploadIdRef = 0,
                   !.tasks[id].status = "completed"]
      IN resolve(onSuccess(RegistryDelete(w1, id), id), id)
    ELSE
      LET errorMsg == "Failed to parse server response"
          w1 == [w0 EXCEPT
                   !.error = Some(errorMsg),
                   !.uploading = FALSE,
                   !.progress = Some(ProgressOf(file, file.size, file.size,
                                                100, "failed", errorMsg)),
                   !.uploadIdRef = 0,
                   !.tasks[id].status = "failed"]
      IN reject(onError(RegistryDelete(w1, id), id), id)
  ELSE
    IF ~JsonParses(body) THEN w
    ELSE
      LET errorMsg == ErrorMessageOf(status, body)
          w1 == [w EXCEPT
                   !.error = Some(errorMsg),
                   !.uploading = FALSE,
                   !.progress = Some(ProgressOf(file, 0, file.size,
                                                0, "failed", errorMsg)),
                   !.uploadIdRef = 0,
                   !.tasks[id].status = "failed"]
      IN reject(onError(RegistryDelete(w1, id), id), id)

\* A load listener without the try and catch around the 2xx branch: a body
\* that does not parse throws out of the listener there too.
onXhrLoadNoCatch(w, id, status, body) ==
  LET file == w.tasks[id].file IN
  IF status >= 200 /\ status < 300 THEN
    IF JsonParses(body) THEN
      LET w1 == [w EXCEPT
                   !.progress = Some(ProgressOf(file, file.size, file.size,
                                                100, "completed", "")),
                   !.tasks[id].nInvalidate = @ + 1,
                   !.uploading = FALSE,
                   !.uploadIdRef = 0,
                   !.tasks[id].status = "completed"]
      IN resolve(onSuccess(RegistryDelete(w1, id), id), id)
    ELSE w
  ELSE
    \* JSON.parse throws out of the listener on a body that is not JSON.
    IF ~JsonParses(body) THEN w
    ELSE
      LET errorMsg == ErrorMessageOf(status, body)
          w1 == [w EXCEPT
                   !.error = Some(errorMsg),
                   !.uploading = FALSE,
                   !.progress = Some(ProgressOf(file, 0, file.size,
                                                0, "failed", errorMsg)),
                   !.uploadIdRef = 0,
                   !.tasks[id].status = "failed"]
      IN reject(onError(RegistryDelete(w1, id), id), id)

\* The listener of "load".
onXhrLoad(w, id, status, body) ==
  LET file == w.tasks[id].file IN
  IF status >= 200 /\ status < 300 THEN
    IF JsonParses(body) THEN
      LET w1 == [w EXCEPT
                   !.progress = Some(ProgressOf(file, file.size, file.size,
                                                100, "completed", "")),
                   !.tasks[id].nInvalidate = @ + 1,
                   !.uploading = FALSE,
                   !.uploadIdRef = 0,
                   !.tasks[id].status = "completed"]
      IN resolve(onSuccess(RegistryDelete(w1, id), id), id)
    ELSE
      LET errorMsg == "Failed to parse server response"
          w1 == [w EXCEPT
                   !.error = Some(errorMsg),
                   !.uploading = FALSE,
                   !.progress = Some(ProgressOf(file, file.size, file.size,
                                                100, "failed", errorMsg)),
                   !.uploadIdRef = 0,
                   !.tasks[id].status = "failed"]
      IN reject(onError(RegistryDelete(w1, id), id), id)
  ELSE
    \* JSON.parse throws out of the listener on a body that is not JSON.
    IF ~JsonParses(body) THEN w
    ELSE
      LET errorMsg == ErrorMessageOf(status, body)
          w1 == [w EXCEPT
                   !.error = Some(errorMsg),
                   !.uploading = FALSE,
                   !.progress = Some(ProgressOf(file, 0, file.size,
                                                0, "failed", errorMsg)),
                   !.uploadIdRef = 0,
                   !.tasks[id].status = "failed"]
      IN reject(onError(RegistryDelete(w1, id), id), id)

\* An error listener that calls the caller back before it deregisters.
onXhrErrorCallbackFirst(w, id) ==
  LET file == w.tasks[id].file
      errorMsg == "Network error during upload"
      w1 == [w EXCEPT
               !.error = Some(errorMsg),
               !.uploading = FALSE,
               !.progress = Some(ProgressOf(file, 0, file.size,
                                            0, "failed", errorMsg)),
               !.tasks[id].status = "failed"]
      w2 == [RegistryDelete(onError(w1, id), id) EXCEPT !.uploadIdRef = 0]
  IN reject(w2, id)

\* The listener of "error".
onXhrError(w, id) ==
  LET file == w.tasks[id].file
      errorMsg == "Network error during upload"
      w1 == [w EXCEPT
               !.error = Some(errorMsg),
               !.uploading = FALSE,
               !.progress = Some(ProgressOf(file, 0, file.size,
                                            0, "failed", errorMsg)),
               !.uploadIdRef = 0,
               !.tasks[id].status = "failed"]
  IN reject(onError(RegistryDelete(w1, id), id), id)

\* The listener of "abort".
onXhrAbort(w, id) ==
  LET errorMsg == "Upload cancelled"
      w1 == [w EXCEPT
               !.error = Some(errorMsg),
               !.uploading = FALSE,
               !.progress = Null,
               !.uploadIdRef = 0,
               !.tasks[id].status = "failed"]
  IN reject(onError(RegistryDelete(w1, id), id), id)

\* A request ends: no event follows the one being dispatched, and the
\* transport's byte count and the request's headers are gone with it.
XhrEnds(w, id) ==
  [w EXCEPT !.tasks[id].xhr = "done",
            !.tasks[id].loaded = 0,
            !.tasks[id].authorization = Null]

\* XMLHttpRequest.abort(): a request that was sent and has not ended is
\* terminated and its abort event is dispatched before abort() returns; on a
\* request not yet sent, or one that has ended, abort() does nothing, and a
\* request not yet sent can still be opened and sent afterwards.
abort(w, id) ==
  IF w.tasks[id].xhr = "sent"
    THEN onXhrAbort(XhrEnds(w, id), id)
    ELSE w

\* A cancel() that reports the cancellation to the caller itself, besides
\* what the abort listener reports.
cancelReportsError(w) ==
  IF w.xhrRef # 0 THEN
    LET id == w.xhrRef
        w1 == abort(w, id)
        w2 == onError([w1 EXCEPT
                         !.uploading = FALSE,
                         !.error = Some("Upload cancelled"),
                         !.progress = Null,
                         !.tasks[id].status =
                            IF @ \in {"queued", "uploading"} THEN "failed" ELSE @],
                      id)
    IN IF w2.uploadIdRef # 0
         THEN [RegistryDelete(w2, w2.uploadIdRef) EXCEPT !.uploadIdRef = 0]
         ELSE w2
  ELSE w

\* cancel() of the hook.
cancel(w) ==
  IF w.xhrRef # 0 THEN
    LET id == w.xhrRef
        w1 == abort(w, id)
        w2 == [w1 EXCEPT
                 !.uploading = FALSE,
                 !.error = Some("Upload cancelled"),
                 !.progress = Null,
                 !.tasks[id].status =
                    IF @ \in {"queued", "uploading"} THEN "failed" ELSE @]
    IN IF w2.uploadIdRef # 0
         THEN [RegistryDelete(w2, w2.uploadIdRef) EXCEPT !.uploadIdRef = 0]
         ELSE w2
  ELSE w

\* The function stored in the registry under an upload id: set() stores the
\* hook's cancel, whatever the id.
registeredCancel(w, id) == cancel(w)

\* An upload() that gives the id back when the file fails validation, so
\* that the next call draws the same one.
uploadReturnsIdOnInvalid(w, file, session, ctx) ==
  LET uploadId == w.uploadIdCounter + 1
      validation == validateFile(file)
      w1 == [w EXCEPT
               !.uploadIdCounter = uploadId,
               !.tasks = Append(@, NewTask(file, session, ctx)),
               !.uploadIdRef = uploadId,
               !.uploading = TRUE,
               !.error = Null,
               !.progress = Some(ProgressOf(file, 0, file.size,
                                            0, "uploading", ""))]
  IN IF ~validation.valid THEN
       LET errorMsg == ErrorOr(validation)
           w2 == [w1 EXCEPT
                    !.error = Some(errorMsg),
                    !.uploading = FALSE,
                    !.uploadIdRef = 0,
                    !.uploadIdCounter = w.uploadIdCounter,
                    !.tasks[uploadId].status = "failed"]
       IN reject(onError(RegistryDelete(w2, uploadId), uploadId), uploadId)
     ELSE
       LET w2 == [w1 EXCEPT
                    !.xhrRef = uploadId,
                    !.tasks[uploadId].xhr = "unsent",
                    !.tasks[uploadId].tokenPending = TRUE]
       IN RegistrySet(w2, uploadId)

\* upload(file), called by the handleFileSelect call `session` from the
\* place ctx: "try" and "catch" are the two calls in handleFileSelect,
\* "overwrite" the one in handleConfirmOverwrite.  The async function runs
\* up to the await in getTokenAndSend.
upload(w, file, session, ctx) ==
  LET uploadId == w.uploadIdCounter + 1
      validation == validateFile(file)
      w1 == [w EXCEPT
               !.uploadIdCounter = uploadId,
               !.tasks = Append(@, NewTask(file, session, ctx)),
               !.uploadIdRef = uploadId,
               !.uploading = TRUE,
               !.error = Null,
               !.progress = Some(ProgressOf(file, 0, file.size,
                                            0, "uploading", ""))]
  IN IF ~validation.valid THEN
       LET errorMsg == ErrorOr(validation)
           w2 == [w1 EXCEPT
                    !.error = Some(errorMsg),
                    !.uploading = FALSE,
                    !.uploadIdRef = 0,
                    !.tasks[uploadId].status = "failed"]
       IN reject(onError(RegistryDelete(w2, uploadId), uploadId), uploadId)
     ELSE
       LET w2 == [w1 EXCEPT
                    !.xhrRef = uploadId,
                    !.tasks[uploadId].xhr = "unsent",
                    !.tasks[uploadId].tokenPending = TRUE]
       IN RegistrySet(w2, uploadId)

\* session?.access_token: undefined for no session, and the empty string is
\* falsy like it.
AccessTokenOf(session) ==
  IF session = Null THEN "" ELSE session[1].access_token

\* A getTokenAndSend that reuses the header of the request made before this
\* one, when that request carries one.
getTokenAndSendReusesHeader(w, id, session) ==
  [w EXCEPT !.tasks[id].tokenPending = FALSE,
            !.tasks[id].xhr = "sent",
            !.tasks[id].authorization =
               IF id > 1 /\ w.tasks[id - 1].authorization # Null
                 THEN w.tasks[id - 1].authorization
               ELSE IF AccessTokenOf(session) # ""
                 THEN Some("Bearer " \o AccessTokenOf(session))
               ELSE Null,
            !.tasks[id].nSend = @ + 1,
            !.tasks[id].status = "uploading"]

\* getTokenAndSend after its await, which gave session: xhr.open, the
\* header, xhr.send.
getTokenAndSend(w, id, session) ==
  [w EXCEPT !.tasks[id].tokenPending = FALSE,
            !.tasks[id].xhr = "sent",
            !.tasks[id].authorization =
               IF AccessTokenOf(session) # ""
                 THEN Some("Bearer " \o AccessTokenOf(session))
                 ELSE Null,
            !.tasks[id].nSend = @ + 1,
            !.tasks[id].status = "uploading"]

\* Map.prototype.forEach visits the entries in insertion order and skips an
\* entry deleted before its turn.
RECURSIVE forEachCancel(_, _)
forEachCancel(w, keys) ==
  IF keys = <<>> THEN w
  ELSE IF Contains(w.activeUploadCancelFunctions, Head(keys))
    THEN forEachCancel(cancel(w), Tail(keys))
    ELSE forEachCancel(w, Tail(keys))

\* A cancelAllActiveUploads() that relies on the cancel functions to empty
\* the registry and does not clear it.
cancelAllWithoutClear(w) ==
  [forEachCancel(w, w.activeUploadCancelFunctions)
     EXCEPT !.tornDown = Some(w.activeUploadCancelFunctions)]

cancelAllActiveUploads(w) ==
  [forEachCancel(w, w.activeUploadCancelFunctions)
     EXCEPT !.activeUploadCancelFunctions = <<>>,
            !.tornDown = Some(w.activeUploadCancelFunctions)]

\* --------------------------------------------- useCheckDuplicateFilename
UpperCase ==
  <<"A", "B", "C", "D", "E", "F", "G", "H", "I", "J", "K", "L", "M",
    "N", "O", "P", "Q", "R", "S", "T", "U", "V", "W", "X", "Y", "Z">>

LowerCase ==
  <<"a", "b", "c", "d", "e", "f", "g", "h", "i", "j", "k", "l", "m",
    "n", "o", "p", "q", "r", "s", "t", "u", "v", "w", "x", "y", "z">>

toLowerCase(name) ==
  [i \in 1..Len(name) |->
     IF \E k \in 1..Len(UpperCase) : UpperCase[k] = name[i]
       THEN LowerCase[CHOOSE k \in 1..Len(UpperCase) : UpperCase[k] = name[i]]
       ELSE name[i]]

\* response.files.find(...) || null: the first file of the listing whose
\* name equals filename ignoring case.
findExisting(files, filename) ==
  LET hits == {i \in 1..Len(files) :
                 toLowerCase(files[i].filename) = toLowerCase(filename)}
  IN IF hits = {} THEN Null
     ELSE Some(files[CHOOSE i \in hits : \A j \in hits : i <= j])

\* The mutation function: a failed request is caught and gives null.
checkDuplicate(requestOk, files, filename) ==
  IF requestOk THEN findExisting(files, filename) ELSE Null

\* GET /files?page=1&page_size=1000 answers with the first page of the
\* user's files, which holds at most PAGE_SIZE of them.
PAGE_SIZE == 1000

FirstPage(userFiles) ==
  SubSeq(userFiles, 1, IF Len(userFiles) < PAGE_SIZE THEN Len(userFiles) ELSE PAGE_SIZE)

\* The files the user can have on the server: none, one, and one more than
\* a page holds, the last of them being the one that the others hide.
ManyFiles ==
  [i \in 1..(PAGE_SIZE + 1) |->
     IF i <= PAGE_SIZE THEN [filename |-> <<"b">>] ELSE [filename |-> <<"A">>]]

UserFileSets == { <<>>, <<[filename |-> <<"A">>]>>, ManyFiles }

\* The listings the server can answer with.
Listings == {FirstPage(userFiles) : userFiles \in UserFileSets}

\* ----------------------------------------------------------- FileUpload
\* A handleFileSelect that shows the validation error and goes on to the
\* duplicate check all the same.
handleFileSelectNoReturn(w, file) ==
  LET validation == validateFile(file)
      w1 == [w EXCEPT !.validationError =
                        IF validation.valid THEN Null
                        ELSE Some(ErrorOr(validation))]
  IN [w1 EXCEPT
        !.selectedFile = Some(file),
        !.sessions = Append(@, [file |-> file, pc |-> "dupcheck", found |-> FALSE])]

\* handleFileSelect(file) up to its await of the duplicate check.  sessions
\* holds the calls that reach the await: the file, the place the call has
\* reached, and whether its duplicate check gave a file.
handleFileSelect(w, file) ==
  LET validation == validateFile(file)
      w1 == [w EXCEPT !.validationError = Null]
  IN IF ~validation.valid
       THEN [w1 EXCEPT !.validationError = Some(ErrorOr(validation))]
       ELSE [w1 EXCEPT
               !.selectedFile = Some(file),
               !.sessions = Append(@, [file |-> file, pc |-> "dupcheck", found |-> FALSE])]

\* A handleFileSelect that raises the dialog for a duplicate and, lacking
\* the else, starts the upload as well.
afterCheckDuplicateNoElse(w, s, existing) ==
  LET w1 == IF existing # Null
              THEN [w EXCEPT !.duplicateFile = existing,
                             !.showDuplicateDialog = TRUE,
                             !.dialogSession = s,
                             !.sessions[s].found = TRUE]
              ELSE w
  IN upload(handleUploadStart([w1 EXCEPT !.sessions[s].pc = "try"]),
            w.sessions[s].file, s, "try")

\* handleFileSelect from the answer of the duplicate check on.  found
\* records that the check gave a file.
afterCheckDuplicate(w, s, existing) ==
  IF existing # Null
    THEN [w EXCEPT !.duplicateFile = existing,
                   !.showDuplicateDialog = TRUE,
                   !.dialogSession = s,
                   !.sessions[s].pc = "dialog",
                   !.sessions[s].found = TRUE]
    ELSE upload(handleUploadStart([w EXCEPT !.sessions[s].pc = "try"]),
                w.sessions[s].file, s, "try")

\* What follows `await upload(...)` once the promise of task id has settled:
\* a rejection inside the try block of handleFileSelect enters its catch
\* block, which starts the upload again; everywhere else the caller ends.
afterUpload(w, id, ok) ==
  LET t == w.tasks[id] IN
  IF t.ctx = "try" /\ ~ok
    THEN upload(handleUploadStart([w EXCEPT !.sessions[t.session].pc = "catch"]),
                t.file, t.session, "catch")
    ELSE [w EXCEPT !.sessions[t.session].pc = "done"]

handleConfirmOverwrite(w) ==
  IF w.selectedFile = Null THEN w
  ELSE
    LET s == w.dialogSession
        w1 == [w EXCEPT !.showDuplicateDialog = FALSE,
                        !.duplicateFile = Null,
                        !.sessions[s].pc = "overwrite"]
    IN upload(handleUploadStart(w1), w.selectedFile[1], s, "overwrite")

handleCancelOverwrite(w) ==
  [w EXCEPT !.showDuplicateDialog = FALSE,
            !.duplicateFile = Null,
            !.selectedFile = Null,
            !.sessions[w.dialogSession].pc = "done"]

handleRetry(w) ==
  IF w.selectedFile # Null
    THEN handleFileSelect([w EXCEPT !.validationError = Null], w.selectedFile[1])
    ELSE w

\* ------------------------------------------------------------ Dashboard
\* logout() of useAuth: the mutation is pending until the request settles.
logout(w) ==
  [w EXCEPT !.isLoggingOut = TRUE,
            !.registryAtLogout = Some(w.activeUploadCancelFunctions)]

\* useAuth: the counter of downloads, which the download code moves.
incrementActiveDownloads(w) ==
  [w EXCEPT !.activeDownloads = @ + 1]

decrementActiveDownloads(w) ==
  [w EXCEPT !.activeDownloads = Max(0, @ - 1)]

\* A Dashboard that looks at the uploads only.
hasActiveUploads(w) == w.activeUploads > 0

hasActiveOperations(w) == w.activeUploads > 0 \/ w.activeDownloads > 0

handleLogout(w) ==
  IF hasActiveOperations(w)
    THEN [w EXCEPT !.showLogoutConfirm = TRUE]
    ELSE logout(w)

\* A handleConfirmLogout that issues the logout first and cancels after.
handleConfirmLogoutThenCancel(w) ==
  LET w1 == logout(w)
      w2 == cancelAllActiveUploads(w1)
  IN [w2 EXCEPT !.activeUploads = 0, !.showLogoutConfirm = FALSE]

\* cancelAllActiveDownloads() aborts the downloads; each of them ends later
\* and moves the counter then.
handleConfirmLogout(w) ==
  LET w1 == cancelAllActiveUploads(w)
      w2 == [w1 EXCEPT !.activeUploads = 0, !.showLogoutConfirm = FALSE]
  IN logout(w2)

\* -------------------------------------------------------------- actions
\* An event is handled only when no promise continuation is waiting.  The
\* model follows the user until a logout is issued: the page then navigates
\* to /login, while the requests and promises left behind go on.
Idle == microtasks = <<>>
UserCan == Idle /\ ~isLoggingOut

TaskIds == 1..Len(tasks)
SessionIds == 1..Len(sessions)

\* The user picks a file (the input and the drop zone are off while uploading).
HandleFileSelect ==
  \E file \in Files :
    /\ UserCan
    /\ ~uploading
    /\ Len(sessions) < MaxSelections
    /\ Commit(handleFileSelect(World, file))

\* The duplicate check of a handleFileSelect call answers.  Calls that wait
\* with the same file are interchangeable, so the oldest of them is answered.
DuplicateCheckReturns ==
  \E s \in SessionIds, requestOk \in BOOLEAN, files \in Listings :
    LET existing == checkDuplicate(requestOk, files, sessions[s].file.name) IN
    /\ Idle
    /\ sessions[s].pc = "dupcheck"
    /\ \A r \in 1..(s - 1) :
         ~(sessions[r].pc = "dupcheck" /\ sessions[r].file = sessions[s].file)
    /\ existing # Null \/ uploadIdCounter < MaxUploads
    /\ Commit(afterCheckDuplicate(World, s, existing))

\* The continuation of the oldest settled upload() promise runs.
RunMicrotask ==
  /\ microtasks # <<>>
  /\ LET m == Head(microtasks) IN
     /\ (tasks[m.task].ctx = "try" /\ ~m.ok) => uploadIdCounter < MaxUploads
     /\ Commit(afterUpload([World EXCEPT !.microtasks = Tail(@)], m.task, m.ok))

\* supabase.auth.getSession() answers a task's getTokenAndSend: with no
\* session, or with the session as it is then.  The access token is
\* refreshed as time passes; the one read for the request of upload id N is
\* written tokenN.
AuthSessions(id) ==
  {Null, Some([access_token |-> ""]),
   Some([access_token |-> "token" \o NatToString(id)])}

GetSessionReturns ==
  \E id \in TaskIds :
    \E session \in AuthSessions(id) :
      /\ Idle
      /\ tasks[id].tokenPending
      /\ Commit(getTokenAndSend(World, id, session))

\* The transport reports bytes sent: the count of one request grows from
\* one event to the next, up to the size of the request body, and an event
\* whose length is not computable carries no total.  tasks[id].loaded is the
\* last count the listener has published.
XhrProgress ==
  \E id \in TaskIds :
    /\ Idle
    /\ tasks[id].xhr = "sent"
    /\ \/ Commit(onXhrProgress(World, id, FALSE, 0, 0))
       \/ \E loaded \in (tasks[id].loaded + 1)..RequestBodySize(tasks[id].file) :
            Commit(onXhrProgress(World, id, TRUE, loaded,
                                 RequestBodySize(tasks[id].file)))

\* The transport completes with a response.
XhrLoad ==
  \E id \in TaskIds, status \in Statuses, body \in Bodies :
    /\ Idle
    /\ tasks[id].xhr = "sent"
    /\ Commit(onXhrLoad(XhrEnds(World, id), id, status, body))

\* The transport fails.
XhrError ==
  \E id \in TaskIds :
    /\ Idle
    /\ tasks[id].xhr = "sent"
    /\ Commit(onXhrError(XhrEnds(World, id), id))

\* The user clicks "Cancel Upload", rendered while uploading.
CancelClick ==
  /\ UserCan
  /\ uploading
  /\ Commit(cancel(World))

\* The buttons of the duplicate dialog.
ConfirmOverwrite ==
  /\ UserCan
  /\ showDuplicateDialog /\ duplicateFile # Null
  /\ selectedFile # Null => uploadIdCounter < MaxUploads
  /\ Commit(handleConfirmOverwrite(World))

CancelOverwrite ==
  /\ UserCan
  /\ showDuplicateDialog /\ duplicateFile # Null
  /\ Commit(handleCancelOverwrite(World))

\* "Try again" and "Retry Upload".
Retry ==
  /\ UserCan
  /\ \/ validationError # Null /\ selectedFile # Null
     \/ error # Null /\ ~uploading
  /\ Len(sessions) < MaxSelections
  /\ Commit(handleRetry(World))

\* The Logout button, off while a logout is pending.
Logout ==
  /\ UserCan
  /\ ~isLoggingOut
  /\ Commit(handleLogout(World))

\* The buttons of the logout confirmation.
ConfirmLogout ==
  /\ UserCan
  /\ showLogoutConfirm
  /\ Commit(handleConfirmLogout(World))

DismissLogoutConfirm ==
  /\ UserCan
  /\ showLogoutConfirm
  /\ Commit([World EXCEPT !.showLogoutConfirm = FALSE])

Next ==
  \/ HandleFileSelect
  \/ DuplicateCheckReturns
  \/ RunMicrotask
  \/ GetSessionReturns
  \/ XhrProgress
  \/ XhrLoad
  \/ XhrError
  \/ CancelClick
  \/ ConfirmOverwrite
  \/ CancelOverwrite
  \/ Retry
  \/ Logout
  \/ ConfirmLogout
  \/ DismissLogoutConfirm

Spec == Init /\ [][Next]_vars

\* ------------------------------------------------------------ properties
Terminal(t) == t.status \in {"completed", "failed"}

Registered(id) == Contains(activeUploadCancelFunctions, id)

\* The number of times the success or the error callback of the caller has
\* run for the tasks 1..n of the handleFileSelect call s.
RECURSIVE CallbacksUpTo(_, _)
CallbacksUpTo(n, s) ==
  IF n = 0 THEN 0
  ELSE CallbacksUpTo(n - 1, s)
       + (IF tasks[n].session = s THEN tasks[n].nSuccess + tasks[n].nError ELSE 0)

CallbacksOf(s) == CallbacksUpTo(Len(tasks), s)

\* C1: every handleFileSelect call that reaches the duplicate check has the
\* success or the error callback invoked at most once while it runs and
\* exactly once when it has ended, whichever way it ends.
C1_ExactlyOneCallback ==
  \A s \in SessionIds :
    /\ CallbacksOf(s) <= 1
    /\ sessions[s].pc = "done" => CallbacksOf(s) = 1

\* C2: once handleConfirmLogout has called cancelAllActiveUploads(), no
\* request is in flight: none that was sent before keeps running and none is
\* sent afterwards (the user selects nothing after a logout).
C2_NoUploadSurvivesLogout ==
  tornDown # Null => \A id \in TaskIds : tasks[id].xhr # "sent"

\* C3: every task that was in the registry when cancelAllActiveUploads() was
\* called has failed, with its request aborted and its error callback
\* invoked exactly once.
C3_CancelAllFailsEveryRegisteredTask ==
  tornDown # Null =>
    \A k \in 1..Len(tornDown[1]) :
      LET t == tasks[tornDown[1][k]] IN
      /\ t.status = "failed"
      /\ t.xhr \notin {"sent"} /\ ~t.tokenPending
      /\ t.nError = 1

\* C4: whatever the registry holds, it is empty when
\* cancelAllActiveUploads() returns.
C4_RegistryEmptyAfterCancelAll ==
  cancelAllActiveUploads(World).activeUploadCancelFunctions = <<>>

\* C4's case: cancelAllActiveUploads() has run on a registry of two entries,
\* one of a task that no cancel function reached (it is still in flight),
\* and the registry is empty.
C4_Witness ==
  /\ tornDown # Null
  /\ Len(tornDown[1]) = 2
  /\ \E k \in 1..2 : tasks[tornDown[1][k]].xhr = "sent"
  /\ activeUploadCancelFunctions = <<>>

\* C5: within one handleFileSelect call, once a task has failed no later
\* task of that call sends a request.
C5_NoInternalRetry ==
  \A i, j \in TaskIds :
    (i < j /\ tasks[i].session = tasks[j].session /\ tasks[i].status = "failed")
      => tasks[j].nSend = 0

\* C6: a click on Cancel Upload while the hook's current task is queued or
\* uploading leaves that task failed for good (no request of it in flight and
\* none to be sent), the error Upload cancelled, the progress null and the
\* task's id out of the registry.
C6_CancelDrivesTaskToFailed ==
  [][(/\ CancelClick
      /\ xhrRef # 0
      /\ tasks[xhrRef].status \in {"queued", "uploading"})
     => (/\ tasks'[xhrRef].status = "failed"
         /\ tasks'[xhrRef].xhr # "sent"
         /\ ~tasks'[xhrRef].tokenPending
         /\ error' = Some("Upload cancelled")
         /\ progress' = Null
         /\ ~Contains(activeUploadCancelFunctions', xhrRef))]_vars

\* C7: a task that is completed or failed does not change any more: no
\* request of it is sent, no byte count of it is published, no callback runs
\* for it and its status stays.
C7_TerminalIsFinal ==
  [][\A id \in TaskIds : Terminal(tasks[id]) => tasks'[id] = tasks[id]]_vars

\* C8: a task's id is in the registry exactly while the task is queued or
\* uploading.
C8_RegisteredIffNonTerminal ==
  \A id \in TaskIds : Registered(id) <=> ~Terminal(tasks[id])

\* C9: when cancelAllActiveUploads() runs while the hook's current task is
\* completed or failed (a listener has settled it), the cancel calls it makes
\* change neither the hook's uploading flag, error and progress nor the
\* callbacks invoked.
C9_CancelOfTerminalTaskIsNoOp ==
  [][(/\ ConfirmLogout
      /\ activeUploadCancelFunctions # <<>>
      /\ xhrRef # 0
      /\ Terminal(tasks[xhrRef])
      /\ tasks[xhrRef].settled # "pending")
     => (/\ uploading' = uploading
         /\ error' = error
         /\ progress' = progress
         /\ \A id \in TaskIds :
              /\ tasks'[id].nSuccess = tasks[id].nSuccess
              /\ tasks'[id].nError = tasks[id].nError)]_vars

\* C10: cancel() twice in a row leaves the state that cancel() once leaves:
\* the same statuses, error, progress, registry and callback counts.
C10_CancelIdempotent ==
  cancel(cancel(World)) = cancel(World)

\* C10's case: the hook's current request is in flight, so that cancel()
\* aborts it and the error callback runs, and a second cancel() adds nothing.
C10_Witness ==
  /\ xhrRef # 0
  /\ tasks[xhrRef].xhr = "sent"
  /\ cancel(World).tasks[xhrRef].nError = tasks[xhrRef].nError + 1
  /\ cancel(cancel(World)).tasks[xhrRef].nError = tasks[xhrRef].nError + 1

\* C11: the function registered under the id of a task whose request is in
\* flight aborts that request and the request of no other task.
C11_RegisteredCancelAbortsOwnTask ==
  \A id \in TaskIds :
    (Registered(id) /\ tasks[id].xhr = "sent") =>
      LET w == registeredCancel(World, id) IN
      /\ w.tasks[id].xhr = "done"
      /\ \A other \in TaskIds \ {id} : w.tasks[other].xhr = tasks[other].xhr

\* The message a non-2xx response is to give: the detail of the body when
\* it has one, else the text derived from the status.
ExpectedRejection(status, body) ==
  IF body = "detail_string" THEN "too large"
  ELSE "Upload failed with status " \o NatToString(status)

\* C12: a load event with a status outside 200..299 fails the task whatever
\* the body is: uploading is false, the id is out of the registry, the error
\* callback has run once more and the error is the body's detail or the
\* text derived from the status.
C12_NonSuccessStatusFailsTask ==
  [][\A id \in TaskIds, status \in Statuses, body \in Bodies :
       (/\ ~(status >= 200 /\ status < 300)
        /\ Idle
        /\ tasks[id].xhr = "sent"
        /\ Commit(onXhrLoad(XhrEnds(World, id), id, status, body)))
       => (/\ tasks'[id].status = "failed"
           /\ ~uploading'
           /\ ~Contains(activeUploadCancelFunctions', id)
           /\ tasks'[id].nError = tasks[id].nError + 1
           /\ error' = Some(ExpectedRejection(status, body)))]_vars

\* The scheduling the claim C13 assumes and the event loop gives: a settled
\* promise's continuation runs, the credential fetch answers, and a request
\* that was sent ends with a load or an error event.
FairSpec ==
  /\ Spec
  /\ WF_vars(RunMicrotask)
  /\ WF_vars(GetSessionReturns)
  /\ WF_vars(XhrLoad \/ XhrError)

\* The model stops at its bound on upload() calls.
BoundReached == microtasks # <<>> /\ uploadIdCounter >= MaxUploads

\* C13: every upload() call that passes validation eventually has its one
\* outcome: its promise settled, its id out of the registry and the
\* uploading flag false.
C13_EveryTaskEnds ==
  \A id \in 1..MaxUploads :
    (Len(tasks) >= id /\ tasks[id].xhr # "none")
      ~> (\/ /\ Len(tasks) >= id
             /\ tasks[id].settled # "pending"
             /\ ~Registered(id)
             /\ ~uploading
          \/ BoundReached)

\* Files that break one rule of the validators each: empty, too large, no
\* name, a blank name, a name too long, a path traversal, a character of
\* invalidChars, a character outside the allowed pattern.
SampleFiles ==
  { [name |-> <<"a">>, size |-> 0],
    [name |-> <<"a">>, size |-> MAX_FILE_SIZE + 1],
    [name |-> <<>>, size |-> 1],
    [name |-> <<" ">>, size |-> 1],
    [name |-> [i \in 1..(MAX_FILENAME_LENGTH + 1) |-> "a"], size |-> 1],
    [name |-> <<"a", ".", ".", "b">>, size |-> 1],
    [name |-> <<"a", "/", "b">>, size |-> 1],
    [name |-> <<"a", "#">>, size |-> 1] }

InvalidFiles == {file \in SampleFiles \cup Files : ~validateFile(file).valid}

\* C14: selecting a file that fails validation shows the validation message
\* and does nothing else: no duplicate check is started, upload() is not
\* called (no credential fetch, no request) and the registry is as it was;
\* and upload() itself, given such a file, registers nothing, makes no
\* request and reports the message.
C14_InvalidFileNoNetwork ==
  (UserCan /\ ~uploading) =>
    \A file \in InvalidFiles :
      LET w == handleFileSelect(World, file)
          u == upload(World, file, 0, "try")
          msg == Some(validateFile(file).error)
      IN /\ w.validationError = msg
         /\ w.sessions = sessions
         /\ w.tasks = tasks
         /\ w.uploadIdCounter = uploadIdCounter
         /\ w.activeUploadCancelFunctions = activeUploadCancelFunctions
         /\ w.activeUploads = activeUploads
         /\ u.activeUploadCancelFunctions = activeUploadCancelFunctions
         /\ u.tasks[u.uploadIdCounter].xhr = "none"
         /\ ~u.tasks[u.uploadIdCounter].tokenPending
         /\ u.error = msg
         /\ ~u.uploading

\* C14's case: an empty file was selected while an earlier selection awaits
\* its duplicate check; the message shows and no task exists.
C14_Witness ==
  /\ validationError = Some("Cannot upload empty file")
  /\ Len(sessions) = 1
  /\ sessions[1].pc = "dupcheck"
  /\ tasks = <<>>
  /\ activeUploadCancelFunctions = <<>>

TasksOf(s) == {id \in TaskIds : tasks[id].session = s}

\* C15: a handleFileSelect call has no upload() call while its duplicate
\* check or the decision on the duplicate it found is pending; when the
\* check found a file, its uploads come from the Overwrite decision only,
\* and when it found none, from none.
C15_NoTransferBeforeDecision ==
  \A s \in SessionIds :
    /\ sessions[s].pc \in {"dupcheck", "dialog"} => TasksOf(s) = {}
    /\ \A id \in TasksOf(s) : (tasks[id].ctx = "overwrite") <=> sessions[s].found

\* C15's case: a duplicate was found and, after Overwrite, the request of
\* that call was sent, while a second call that found a duplicate waits for
\* its decision with no upload.
C15_Witness ==
  /\ Len(sessions) = 2
  /\ sessions[1].found /\ sessions[1].pc = "dialog" /\ TasksOf(1) = {}
  /\ sessions[2].found
  /\ \E id \in TasksOf(2) : tasks[id].ctx = "overwrite" /\ tasks[id].nSend = 1

\* C16: the Cancel decision of the duplicate dialog calls upload() for
\* nothing and registers nothing, and reports the call as failed with the
\* cause cancelled: as the hook's error or as a validation error.
C16_CancelDecisionReportsCancelled ==
  [][CancelOverwrite
     => (/\ tasks' = tasks
         /\ activeUploadCancelFunctions' = activeUploadCancelFunctions
         /\ \/ error' = Some("Upload cancelled")
            \/ validationError' = Some("Upload cancelled"))]_vars

\* The number of tasks among 1..n of the handleFileSelect call s whose
\* request was sent.
RECURSIVE TransfersUpTo(_, _)
TransfersUpTo(n, s) ==
  IF n = 0 THEN 0
  ELSE TransfersUpTo(n - 1, s)
       + (IF tasks[n].session = s THEN tasks[n].nSend ELSE 0)

\* C17: a duplicate check whose request failed is answered like one that
\* found nothing: the dialog is not raised, nothing is shown as an error,
\* upload() is called once with the selected file; and the call makes
\* exactly one transfer: none further once it has ended.
C17_LookupFailureOneTransfer ==
  /\ \A s \in SessionIds :
       (sessions[s].pc = "dupcheck" /\ Idle /\ uploadIdCounter < MaxUploads) =>
         LET w == afterCheckDuplicate(World, s,
                    checkDuplicate(FALSE, <<>>, sessions[s].file.name))
         IN /\ w.showDuplicateDialog = showDuplicateDialog
            /\ w.error = Null /\ w.validationError = validationError
            /\ Len(w.tasks) = Len(tasks) + 1
            /\ w.tasks[Len(w.tasks)].file = sessions[s].file
            /\ w.tasks[Len(w.tasks)].session = s
  /\ \A s \in SessionIds :
       ~sessions[s].found =>
         /\ TransfersUpTo(Len(tasks), s) <= 1
         /\ sessions[s].pc = "done" => TransfersUpTo(Len(tasks), s) = 1

\* The percentage the progress listener published with the last byte count
\* of a task (0, as upload() publishes, before the first).
LastPercentage(id) ==
  RoundDiv(tasks[id].loaded * 100, RequestBodySize(tasks[id].file))

\* C18: while a request is in flight, every progress event that can come
\* next publishes a percentage no smaller than the last one and at most 100
\* with status uploading; the load event of a success publishes 100 with
\* status completed; and a completed task has no event to come.
C18_PercentagesRiseToCompleted ==
  \A id \in TaskIds :
    /\ (Idle /\ tasks[id].xhr = "sent") =>
         /\ \A loaded \in (tasks[id].loaded + 1)..RequestBodySize(tasks[id].file) :
              LET w == onXhrProgress(World, id, TRUE, loaded,
                                     RequestBodySize(tasks[id].file))
              IN /\ w.progress[1].percentage >= LastPercentage(id)
                 /\ w.progress[1].percentage <= 100
                 /\ w.progress[1].status = "uploading"
         /\ LET w == onXhrLoad(XhrEnds(World, id), id, 200, "file_json")
            IN /\ w.progress[1].percentage = 100
               /\ w.progress[1].status = "completed"
               /\ w.tasks[id].status = "completed"
    /\ tasks[id].status = "completed" =>
         tasks[id].xhr = "done" /\ ~tasks[id].tokenPending

\* C18's case: a transfer has succeeded and the hook shows 100, completed.
C18_Witness ==
  \E id \in TaskIds :
    /\ tasks[id].status = "completed"
    /\ tasks[id].nSuccess = 1
    /\ progress = Some(ProgressOf(tasks[id].file, tasks[id].file.size,
                                  tasks[id].file.size, 100, "completed", ""))

\* A task is active from its upload() call until a listener has settled its
\* promise: its credential fetch is pending or its request is in flight.
Active(id) == tasks[id].tokenPending \/ tasks[id].xhr = "sent"

\* C19: at most one task of the hook is active at any time.
C19_OneActiveTaskPerHook ==
  Cardinality({id \in TaskIds : Active(id)}) <= 1

\* C20: queryClient.invalidateQueries has run once for every task that is
\* completed, and not at all for a task that is failed or has no outcome
\* yet.
C20_InvalidateOncePerCompleted ==
  \A id \in TaskIds :
    tasks[id].nInvalidate = (IF tasks[id].status = "completed" THEN 1 ELSE 0)

\* C20's case: one upload has completed and one has failed on a 2xx
\* response that does not parse.
C20_Witness ==
  \E i, j \in TaskIds :
    /\ tasks[i].status = "completed" /\ tasks[i].nInvalidate = 1
    /\ tasks[j].status = "failed" /\ tasks[j].nInvalidate = 0
    /\ tasks[j].nError = 1
    /\ error = Some("Failed to parse server response")

\* ------------------------------------------------- the validators alone
\* upload() validates whatever file its caller passes.  The names are all the
\* strings of up to MaxNameLen characters over ValidatorChars (a letter, the
\* dot, a space, a character of the invalid class, a character outside the
\* allowed pattern, a form feed), as they are and filled up with letters to the longest
\* allowed length and to one more; the sizes are the two limits and their
\* neighbours.
MaxNameLen == 3

ValidatorChars == {"a", ".", " ", "/", "#", "FF"}

RECURSIVE NamesUpTo(_)
NamesUpTo(n) ==
  IF n = 0 THEN {<<>>}
  ELSE LET shorter == NamesUpTo(n - 1)
       IN shorter \cup {Append(name, c) : name \in shorter, c \in ValidatorChars}

PadTo(name, len) == name \o [i \in 1..(len - Len(name)) |-> "a"]

ValidatorNames ==
  NamesUpTo(MaxNameLen)
    \cup {PadTo(name, len) : name \in NamesUpTo(MaxNameLen),
                             len \in {MAX_FILENAME_LENGTH, MAX_FILENAME_LENGTH + 1}}

ValidatorFiles ==
  [name : ValidatorNames, size : {0, 1, MAX_FILE_SIZE, MAX_FILE_SIZE + 1}]

\* The first call of upload(), with any of these files.
UploadAnyFile ==
  \E file \in ValidatorFiles :
    /\ tasks = <<>>
    /\ Commit(upload(World, file, 0, "try"))

ValidatorSpec == Init /\ [][UploadAnyFile]_vars

\* The seven rules, each by itself, in the order of the claim, and the
\* message of each.
EmptyFile(file) == file.size = 0
TooLarge(file) == file.size > MAX_FILE_SIZE
EmptyName(file) == \A i \in 1..Len(file.name) : file.name[i] \in WhiteSpace
NameTooLong(file) == Len(file.name) > MAX_FILENAME_LENGTH
PathTraversal(file) ==
  \E i \in 1..(Len(file.name) - 1) : file.name[i] = "." /\ file.name[i + 1] = "."
InvalidCharacters(file) == \E i \in 1..Len(file.name) : file.name[i] \in InvalidChars
DisallowedPattern(file) == ~ALLOWED_FILENAME_PATTERN(file.name)

RuleApplies(file) ==
  <<EmptyFile(file), TooLarge(file), EmptyName(file), NameTooLong(file),
    PathTraversal(file), InvalidCharacters(file), DisallowedPattern(file)>>

RuleMessages ==
  <<"Cannot upload empty file",
    "File size exceeds 50MB limit",
    "Filename cannot be empty",
    "Filename exceeds maximum length of 255 characters",
    "Filename cannot contain path traversal sequences (..)",
    "Filename contains invalid characters (<, >, \", ', BACKTICK, /, \\, newline, tab, null)",
    "Filename can only contain letters, numbers, dots, underscores, hyphens, spaces, and parentheses">>

\* The first rule that applies to the file, 0 if none does.
FirstViolation(file) ==
  LET applies == RuleApplies(file) IN
  IF \E i \in 1..7 : applies[i]
    THEN CHOOSE i \in 1..7 : applies[i] /\ \A j \in 1..(i - 1) : ~applies[j]
    ELSE 0

\* C21: whatever the size and the name, upload() reports the message of the
\* first rule that applies, in the order EmptyFile, TooLarge, EmptyName,
\* NameTooLong, PathTraversal, InvalidCharacters, DisallowedPattern, and makes
\* no request; it goes on to the request exactly when no rule applies.
C21_FirstViolationReported ==
  \A id \in TaskIds :
    LET file == tasks[id].file
        first == FirstViolation(file)
    IN IF first = 0
         THEN /\ error = Null
              /\ tasks[id].xhr = "unsent"
              /\ tasks[id].tokenPending
         ELSE /\ error = Some(RuleMessages[first])
              /\ tasks[id].xhr = "none"
              /\ tasks[id].status = "failed"

\* C21: a file over the size limit whose name is too long, has a traversal
\* sequence and an invalid character is reported as too large.
C21_Witness ==
  \E id \in TaskIds :
    /\ TooLarge(tasks[id].file)
    /\ NameTooLong(tasks[id].file)
    /\ PathTraversal(tasks[id].file)
    /\ InvalidCharacters(tasks[id].file)
    /\ error = Some("File size exceeds 50MB limit")

\* C22, as claimed: a file of acceptable size whose name contains ".." is
\* reported as a path traversal, whatever else is wrong with the name.
C22_TraversalAlwaysReported ==
  \A id \in TaskIds :
    (~EmptyFile(tasks[id].file) /\ ~TooLarge(tasks[id].file)
       /\ PathTraversal(tasks[id].file))
    => error = Some(RuleMessages[5])

\* C22, amended: a file of acceptable size whose name contains ".." and is
\* at most MAX_FILENAME_LENGTH characters long is reported as a path
\* traversal, even if the name also has invalid characters or characters
\* outside the allowed pattern.
C22_TraversalReportedUnlessTooLong ==
  \A id \in TaskIds :
    (~EmptyFile(tasks[id].file) /\ ~TooLarge(tasks[id].file)
       /\ ~NameTooLong(tasks[id].file) /\ PathTraversal(tasks[id].file))
    => /\ error = Some(RuleMessages[5])
       /\ tasks[id].xhr = "none"

\* C22: the name "../" has the traversal sequence and an invalid character.
C22_Witness ==
  \E id \in TaskIds :
    /\ tasks[id].file = [name |-> <<".", ".", "/">>, size |-> 1]
    /\ error = Some("Filename cannot contain path traversal sequences (..)")

\* C23: whenever the success or the error callback is invoked for a task,
\* the registry no longer holds the task's id, and it does not hold it
\* afterwards; cancelling a request in flight removes the id of that request
\* and no other, and the second removal (by cancel() after the abort
\* listener, or by a listener after cancel()) changes nothing.
C23_DeregisteredBeforeCallback ==
  /\ \A id \in TaskIds :
       /\ ~tasks[id].registeredAtCallback
       /\ (tasks[id].nSuccess + tasks[id].nError > 0) => ~Registered(id)
       /\ ~Registered(id) => RegistryDelete(World, id) = World
  /\ (xhrRef # 0 /\ tasks[xhrRef].xhr = "sent") =>
       LET w == cancel(World) IN
       /\ w.activeUploadCancelFunctions =
            Without(activeUploadCancelFunctions, xhrRef)
       /\ ~w.tasks[xhrRef].registeredAtCallback
       /\ w.tasks[xhrRef].nError = tasks[xhrRef].nError + 1

\* C23: both callbacks have been invoked (a success for one task, an error by
\* cancellation for another) and neither task is registered.
C23_Witness ==
  \E i, j \in TaskIds :
    /\ tasks[i].nSuccess = 1 /\ ~Registered(i)
    /\ tasks[j].nError = 1 /\ ~Registered(j)
    /\ error = Some("Upload cancelled")

\* The header a request must carry for what getSession() gave.
HeaderFor(session) ==
  IF session = Null \/ session[1].access_token = ""
    THEN Null
    ELSE Some("Bearer " \o session[1].access_token)

\* C24: a request is sent only by the continuation of its own task's
\* getSession() call, with the token that call returned and with no header
\* when it returned none; so a request in flight carries its own task's
\* token or no header, never the token read for another task.
C24_FreshCredentialPerRequest ==
  \A id \in TaskIds :
    /\ tasks[id].xhr = "sent" =>
         /\ ~tasks[id].tokenPending
         /\ tasks[id].authorization \in {HeaderFor(session) : session \in AuthSessions(id)}
    /\ tasks[id].xhr = "unsent" => tasks[id].nSend = 0
    /\ (Idle /\ tasks[id].tokenPending) =>
         \A session \in AuthSessions(id) :
           LET w == getTokenAndSend(World, id, session) IN
           /\ w.tasks[id].xhr = "sent"
           /\ w.tasks[id].authorization = HeaderFor(session)
           /\ \A other \in TaskIds \ {id} :
                w.tasks[other].authorization = tasks[other].authorization

\* C24: two requests in flight, the first with the token read for it, the
\* second, whose getSession() gave no session, without a header.
C24_Witness ==
  /\ Len(tasks) = 2
  /\ tasks[1].xhr = "sent" /\ tasks[1].authorization = Some("Bearer token1")
  /\ tasks[2].xhr = "sent" /\ tasks[2].authorization = Null

\* C25: in every progress value the hook publishes, loaded is at most total
\* and total is the size of the file of the task the value is about.
C25_TotalIsFileSize ==
  progress # Null =>
    /\ progress[1].loaded <= progress[1].total
    /\ \E id \in TaskIds :
         /\ tasks[id].file.name = progress[1].filename
         /\ progress[1].total = tasks[id].file.size

\* C26: while the hook shows an error, the progress it publishes does not
\* say uploading or completed.
C26_ErrorOnlyWhenFailed ==
  error # Null =>
    (progress = Null \/ progress[1].status \notin {"uploading", "completed"})

\* C27: a 2xx completion whose body does not parse fails the task: the
\* error callback is invoked once and the success callback not at all, the
\* id leaves the registry, uploading becomes false, the message says so, and
\* the promise, if still pending, is rejected.
C27_ParseFailureFailsTask ==
  \A id \in TaskIds :
    (Idle /\ tasks[id].xhr = "sent") =>
      LET w == onXhrLoad(XhrEnds(World, id), id, 200, "not_json") IN
      /\ w.tasks[id].status = "failed"
      /\ w.tasks[id].nError = tasks[id].nError + 1
      /\ w.tasks[id].nSuccess = tasks[id].nSuccess
      /\ w.tasks[id].nInvalidate = tasks[id].nInvalidate
      /\ ~Contains(w.activeUploadCancelFunctions, id)
      /\ ~w.uploading
      /\ w.error = Some("Failed to parse server response")
      /\ w.progress # Null /\ w.progress[1].status = "failed"
      /\ w.tasks[id].settled = "rejected"

\* C27: a task has ended this way.
C27_Witness ==
  \E id \in TaskIds :
    /\ tasks[id].status = "failed"
    /\ tasks[id].xhr = "done"
    /\ tasks[id].nError = 1 /\ tasks[id].nSuccess = 0
    /\ ~Registered(id)
    /\ ~uploading
    /\ error = Some("Failed to parse server response")
    /\ progress # Null /\ progress[1].status = "failed"

\* C28: the ids issued so far are 1..uploadIdCounter, one per call of
\* upload(), and the next call, whether its file passes validation or not,
\* draws an id above all of them and moves the counter to it.
C28_UploadIdsNeverReused ==
  /\ Len(tasks) = uploadIdCounter
  /\ uploadIdRef \in {0} \cup TaskIds
  /\ \A file \in Files :
       LET u == upload(World, file, 0, "try") IN
       /\ u.uploadIdCounter = uploadIdCounter + 1
       /\ u.uploadIdCounter \notin TaskIds
       /\ Len(u.tasks) = u.uploadIdCounter
       /\ \A id \in TaskIds : u.tasks[id].file = tasks[id].file
       /\ u.tasks[u.uploadIdCounter].file = file

\* C28: two calls have been made; the first one's task has ended and the
\* second one's is still on its way.
C28_Witness ==
  /\ uploadIdCounter = 2
  /\ tasks[1].settled # "pending"
  /\ tasks[2].tokenPending
  /\ uploadIdRef = 2

\* "Retry Upload" is on the page and every upload made so far has ended in
\* failure.
RetryOffered ==
  /\ UserCan
  /\ error # Null /\ ~uploading
  /\ tasks # <<>>
  /\ \A id \in TaskIds : tasks[id].status = "failed" /\ tasks[id].xhr = "done"

\* C29: a click on "Retry Upload" after a failure starts handleFileSelect
\* anew for the file of a failed upload: the file is validated, a new
\* duplicate check is begun, and no request is made and no upload id drawn
\* before that check answers.
C29_RetryRestartsSession ==
  RetryOffered =>
    LET w == handleRetry(World) IN
    /\ Len(w.sessions) = Len(sessions) + 1
    /\ w.sessions[Len(w.sessions)].pc = "dupcheck"
    /\ \E id \in TaskIds : w.sessions[Len(w.sessions)].file = tasks[id].file
    /\ w.validationError = Null
    /\ w.tasks = tasks
    /\ w.uploadIdCounter = uploadIdCounter
    /\ w.xhrRef = xhrRef

\* Two names are equal ignoring case.
EqualIgnoringCase(a, b) ==
  /\ Len(a) = Len(b)
  /\ \A i \in 1..Len(a) :
       \/ a[i] = b[i]
       \/ \E k \in 1..Len(UpperCase) :
            {a[i], b[i]} = {UpperCase[k], LowerCase[k]}

\* C30: when the listing request succeeds, the duplicate check of a
\* handleFileSelect call finds a file exactly when one of the user's files
\* has the selected file's name ignoring case, however many files the user
\* has.
C30_FindsDuplicateIffExists ==
  [][\A s \in SessionIds, userFiles \in UserFileSets :
       (/\ Idle
        /\ sessions[s].pc = "dupcheck"
        /\ Commit(afterCheckDuplicate(
                    World, s,
                    checkDuplicate(TRUE, FirstPage(userFiles), sessions[s].file.name))))
       => (sessions'[s].found <=>
             \E i \in 1..Len(userFiles) :
               EqualIgnoringCase(userFiles[i].filename, sessions[s].file.name))
    ]_vars

\* 50 MiB in bytes.
FiftyMiB == 50 * 1024 * 1024

\* C31: upload() reports the size limit, as "50MB", exactly for the files
\* of more than 52428800 bytes; a file of exactly that size passes the size
\* check, one of a byte more does not.
C31_TooLargeAboveFiftyMiB ==
  \A id \in TaskIds :
    LET file == tasks[id].file IN
    /\ (error = Some("File size exceeds 50MB limit")) <=> file.size > FiftyMiB
    /\ file.size = FiftyMiB => validateFileSize(file).valid
    /\ file.size = FiftyMiB + 1 =>
         /\ ~validateFileSize(file).valid
         /\ tasks[id].xhr = "none"

\* C31: a file of exactly 52428800 bytes with a good name is on its way.
C31_Witness ==
  \E id \in TaskIds :
    /\ tasks[id].file.size = 52428800
    /\ tasks[id].xhr = "unsent"
    /\ error = Null

\* C32: a file that upload() accepts has a name made of letters, digits,
\* dot, underscore, hyphen, space and parentheses only.
C32_AcceptedNamesUseAllowedChars ==
  \A id \in TaskIds :
    tasks[id].xhr # "none" =>
      \A i \in 1..Len(tasks[id].file.name) :
        tasks[id].file.name[i] \in
          Letters \cup DigitChars \cup {".", "_", "-", " ", "(", ")"}

\* ------------------------------------------- selections of two files
\* The user has a second file at hand, with another name.  The selections,
\* the duplicate checks, the dialog and the transfers are followed; cancel,
\* retry, progress events and logout are left aside.
MoreFiles == Files \cup {[name |-> <<"b">>, size |-> 1]}

HandleAnyFileSelect ==
  \E file \in MoreFiles :
    /\ UserCan
    /\ ~uploading
    /\ Len(sessions) < MaxSelections
    /\ Commit(handleFileSelect(World, file))

TwoFilesNext ==
  \/ HandleAnyFileSelect
  \/ DuplicateCheckReturns
  \/ RunMicrotask
  \/ GetSessionReturns
  \/ XhrLoad
  \/ XhrError
  \/ ConfirmOverwrite
  \/ CancelOverwrite

TwoFilesSpec == Init /\ [][TwoFilesNext]_vars

\* C33: an upload started by "Overwrite" transfers the file of the
\* handleFileSelect call whose duplicate check raised the dialog.
C33_OverwriteTransfersMatchedFile ==
  \A id \in TaskIds :
    tasks[id].ctx = "overwrite" =>
      tasks[id].file = sessions[tasks[id].session].file

\* C34: the hook says uploading exactly while one of its requests is
\* waiting to be sent or is in flight.
C34_UploadingIffTransferPending ==
  uploading <=> \E id \in TaskIds : Active(id)

\* The uploads announced by onUploadStart for which neither callback has
\* been invoked yet.
StartedNotEnded ==
  {id \in TaskIds : tasks[id].nSuccess + tasks[id].nError = 0}

\* C35: the Dashboard's counter is not negative, counts the uploads started
\* and not yet ended by a callback, and is 0 when no request is waiting to
\* be sent or in flight and no continuation is waiting.
C35_ActiveUploadsCountsOpenUploads ==
  /\ activeUploads >= 0
  /\ activeUploads = Cardinality(StartedNotEnded)
  /\ (Idle /\ \A id \in TaskIds : ~Active(id)) => activeUploads = 0

\* ------------------------------------------------- logout and downloads
MaxDownloads == 1

\* A download starts on a click in the file list and ends on its own.
DownloadStarts ==
  /\ UserCan
  /\ activeDownloads < MaxDownloads
  /\ Commit(incrementActiveDownloads(World))

DownloadEnds ==
  /\ Idle
  /\ activeDownloads > 0
  /\ Commit(decrementActiveDownloads(World))

DashboardNext ==
  \/ HandleFileSelect
  \/ DuplicateCheckReturns
  \/ RunMicrotask
  \/ GetSessionReturns
  \/ XhrProgress
  \/ XhrLoad
  \/ XhrError
  \/ CancelClick
  \/ ConfirmOverwrite
  \/ CancelOverwrite
  \/ Retry
  \/ Logout
  \/ ConfirmLogout
  \/ DismissLogoutConfirm
  \/ DownloadStarts
  \/ DownloadEnds

DashboardSpec == Init /\ [][DashboardNext]_vars

\* C36: a step that issues the logout while uploads or downloads are counted
\* active is the confirmed one, taken from the open confirmation; the Logout
\* button issues it only when activeUploads + activeDownloads = 0; and the
\* confirmed step has emptied the upload registry before logout() is called.
C36_LogoutOnlyIdleOrConfirmed ==
  [][/\ (~isLoggingOut /\ isLoggingOut' /\ activeUploads + activeDownloads > 0)
          => (showLogoutConfirm /\ Commit(handleConfirmLogout(World)))
     /\ (~isLoggingOut /\ handleLogout(World).isLoggingOut)
          => activeUploads + activeDownloads = 0
     /\ (showLogoutConfirm /\ Commit(handleConfirmLogout(World)))
          => /\ isLoggingOut'
             /\ tornDown' = Some(activeUploadCancelFunctions)
             /\ registryAtLogout' = Some(<<>>)
             /\ activeUploadCancelFunctions' = <<>>]_vars

\* C36: a confirmed logout that found uploads in the registry and a download
\* counted active.
C36_Witness ==
  /\ isLoggingOut
  /\ tornDown # Null /\ tornDown # Some(<<>>)
  /\ registryAtLogout = Some(<<>>)
  /\ activeDownloads > 0

\* ---------------------------------------------------------- usePagination
\* FileList calls usePagination() with no argument.
initialPageSize == 6

Min(a, b) == IF a <= b THEN a ELSE b

\* Math.ceil(a / b) for a >= 0 and b > 0.
CeilOfQuotient(a, b) == (a + b - 1) \div b

totalPages(w) == Max(1, CeilOfQuotient(w.totalItems, initialPageSize))

setPage(w, newPage) ==
  LET boundedPage == Max(1, Min(newPage, totalPages(w)))
  IN [w EXCEPT !.page = boundedPage]

nextPage(w) ==
  IF w.page < totalPages(w) THEN [w EXCEPT !.page = w.page + 1] ELSE w

previousPage(w) ==
  IF w.page > 1 THEN [w EXCEPT !.page = w.page - 1] ELSE w

firstPage(w) == [w EXCEPT !.page = 1]

lastPage(w) == [w EXCEPT !.page = totalPages(w)]

\* The state setter itself is handed out: the page is left as it is.
setTotalItems(w, total) == [w EXCEPT !.totalItems = total]

MaxTotalItems == 40

\* The totals a listing reports and the pages a caller may ask for.
Totals == 0..MaxTotalItems
PageArguments == (0 - 1)..(CeilOfQuotient(MaxTotalItems, initialPageSize) + 1)

SetPage ==
  \E newPage \in PageArguments :
    /\ Idle
    /\ Commit(setPage(World, newPage))

NextPage ==
  /\ Idle
  /\ Commit(nextPage(World))

PreviousPage ==
  /\ Idle
  /\ Commit(previousPage(World))

FirstPageClick ==
  /\ Idle
  /\ Commit(firstPage(World))

LastPage ==
  /\ Idle
  /\ Commit(lastPage(World))

\* The listing answers with a total (the effect of FileList).
SetTotalItems ==
  \E total \in Totals :
    /\ Idle
    /\ Commit(setTotalItems(World, total))

PaginationNext ==
  \/ SetPage
  \/ NextPage
  \/ PreviousPage
  \/ FirstPageClick
  \/ LastPage
  \/ SetTotalItems

PaginationSpec == Init /\ [][PaginationNext]_vars

\* C37: after any sequence of setPage, nextPage, previousPage, firstPage,
\* lastPage and setTotalItems calls the current page lies between 1 and
\* totalPages = max(1, ceil(totalItems / pageSize)).
C37_PageWithinTotalPages ==
  /\ 1 <= page
  /\ page <= totalPages(World)
====
